---- MODULE Spec2Model ----
(***************************************************************************)
(* Model of the concurrent scan engine of sub_crawler (src/src/main.rs):   *)
(* scan_subdomains partitions the wordlist with chunks(chunk_size), spawns *)
(* one thread per chunk, every thread resolves its candidates and inserts  *)
(* the hostnames that resolve into a Mutex<HashSet>, the main thread joins *)
(* every handle, reads the set and sorts it.                               *)
(*                                                                         *)
(* Strings are sequences of byte values, so that format!, the HashSet's    *)
(* equality and the lexicographic order of sort() are computed.            *)
(***************************************************************************)
EXTENDS Integers, Sequences, FiniteSets, TLC

\* ------------------------------------------------------------------ bounds
\* longest wordlist explored
MaxLen == 4
\* largest "ordinary" thread count explored (besides the two largest usize)
MaxThreads == 3
\* width of usize in the model (64 on the real targets)
WordBits == 8

UsizeModulus == 2 ^ WordBits
UsizeMax == UsizeModulus - 1

\* the byte '.' of format!("{}.{}", subdomain, domain)
Dot == 46

\* candidate labels "w" and "ww", domain "e"
Labels == {<<119>>, <<119, 119>>}
Domains == {<<101>>}

\* thread counts given on the command line: 0, the small ones, and the two
\* largest values of usize
ThreadCounts == (0 .. MaxThreads) \cup {UsizeMax - 1, UsizeMax}

\* ------------------------------------------------------------ pure helpers
Range(s) == {s[i] : i \in 1 .. Len(s)}

Min(a, b) == IF a <= b THEN a ELSE b

SeqsUpTo(S, n) == UNION {[1 .. k -> S] : k \in 0 .. n}

\* format!("{}.{}", subdomain, domain)
Hostname(subdomain, dom) == subdomain \o <<Dot>> \o dom

\* str's Ord: byte-wise lexicographic order, a proper prefix is smaller
RECURSIVE StrLess(_, _)
StrLess(a, b) ==
    IF b = <<>> THEN FALSE
    ELSE IF a = <<>> THEN TRUE
    ELSE IF Head(a) < Head(b) THEN TRUE
    ELSE IF Head(a) > Head(b) THEN FALSE
    ELSE StrLess(Tail(a), Tail(b))

\* results.sort(): ascending, stable; equal elements are kept
\* (mutant: the comparison reversed, a descending sort)
RECURSIVE SortInsertDescending(_, _)
SortInsertDescending(sorted, x) ==
    IF sorted = <<>> THEN <<x>>
    ELSE IF StrLess(Head(sorted), x) THEN <<x>> \o sorted
    ELSE <<Head(sorted)>> \o SortInsertDescending(Tail(sorted), x)

RECURSIVE SortInsert(_, _)
SortInsert(sorted, x) ==
    IF sorted = <<>> THEN <<x>>
    ELSE IF StrLess(x, Head(sorted)) THEN <<x>> \o sorted
    ELSE <<Head(sorted)>> \o SortInsert(Tail(sorted), x)

\* (mutant: the Vec is returned as collected, without sort())
SortSkipped(v) == v

RECURSIVE Sort(_)
Sort(v) ==
    IF v = <<>> THEN <<>>
    ELSE SortInsert(Sort(SubSeq(v, 1, Len(v) - 1)), v[Len(v)])

\* HashSet::insert keeps one copy of a value (mutant: a Vec push)
HashSetInsertPush(set, value) == Append(set, value)

\* (mutant: the insert goes to a clone of the set and is lost)
HashSetInsertDropped(set, value) == set

HashSetInsert(set, value) ==
    IF value \in Range(set) THEN set ELSE Append(set, value)

\* HashSet::iter yields every element once, in an unspecified order
IterOrders(set) ==
    {p \in [1 .. Len(set) -> 1 .. Len(set)] : \A i, j \in 1 .. Len(set) : p[i] = p[j] => i = j}

Collected(set, p) == [i \in 1 .. Len(set) |-> set[p[i]]]

\* -------------------------------------------------------- usize arithmetic
WrappingAdd(a, b) == (a + b) % UsizeModulus
WrappingSub(a, b) == (a - b + UsizeModulus) % UsizeModulus

\* (wordlist.len() + max_threads - 1) / max_threads panics on a zero divisor,
\* and with overflow checks (debug profile) on a wrapping + or -
ChunkSizePanics(n, w, overflow_checks) ==
    \/ w = 0
    \/ overflow_checks /\ n + w > UsizeMax
    \/ overflow_checks /\ WrappingAdd(n, w) < 1

\* mutant: rounding down instead of up
ChunkSizeValueFloor(n, w) == n \div w

ChunkSizeValue(n, w) == WrappingSub(WrappingAdd(n, w), 1) \div w

\* Chunks::next: the next chunk holds min(v.len(), chunk_size) elements
\* (mutant: every chunk one element short of chunk_size)
NextChunkLenShort(v, size) == Min(Len(v), IF size > 1 THEN size - 1 ELSE 1)

NextChunkLen(v, size) == Min(Len(v), size)

\* --------------------------------------------------------------- the state
VARIABLES
    domain,         \* args.domain
    wordlist,       \* the candidates
    max_threads,    \* args.threads
    dns,            \* the hostnames to_socket_addrs resolves (fixed oracle)
    pc,             \* position of the main thread in scan_subdomains
    chunk_size,     \* line 198
    rest,           \* what the Chunks iterator has not yielded yet
    chunk,          \* chunk[w]: the chunk moved into thread w
    wpc,            \* wpc[w]: position of thread w in its closure
    widx,           \* widx[w]: index in chunk[w] of the candidate in hand
    joined,         \* number of handles joined
    found_domains,  \* the HashSet inside the Mutex
    mutex_owner,    \* thread holding the MutexGuard, NoOwner when free
    poisoned,       \* the Mutex's poison flag
    progress,       \* position of the progress bar
    results         \* the Vec scan_subdomains returns

vars == <<domain, wordlist, max_threads, dns, pc, chunk_size, rest, chunk, wpc,
          widx, joined, found_domains, mutex_owner, poisoned, progress, results>>

NoOwner == 0

Workers == 1 .. Len(chunk)

N == Len(wordlist)

Init ==
    /\ domain \in Domains
    /\ wordlist \in SeqsUpTo(Labels, MaxLen)
    /\ max_threads \in ThreadCounts
    /\ dns \in SUBSET {Hostname(l, d) : l \in Labels, d \in Domains}
    /\ pc = "chunk_size"
    /\ chunk_size = 0
    /\ rest = <<>>
    /\ chunk = <<>>
    /\ wpc = <<>>
    /\ widx = <<>>
    /\ joined = 0
    /\ found_domains = <<>>
    /\ mutex_owner = NoOwner
    /\ poisoned = FALSE
    /\ progress = 0
    /\ results = <<>>


\* ------------------------------------------------- the main thread (scan)
\* line 198: let chunk_size = (wordlist.len() + max_threads - 1) / max_threads;
\* the build profile decides whether a wrapping + or - panics
ComputeChunkSize ==
    /\ pc = "chunk_size"
    /\ \E overflow_checks \in BOOLEAN :
         IF ChunkSizePanics(N, max_threads, overflow_checks)
         THEN /\ pc' = "panicked"
              /\ UNCHANGED chunk_size
         ELSE /\ pc' = "chunks"
              /\ chunk_size' = ChunkSizeValue(N, max_threads)
    /\ UNCHANGED <<domain, wordlist, max_threads, dns, rest, chunk, wpc, widx,
                   joined, found_domains, mutex_owner, poisoned, progress, results>>

\* line 200: wordlist.chunks(chunk_size) asserts chunk_size != 0
MakeChunks ==
    /\ pc = "chunks"
    /\ IF chunk_size = 0
       THEN /\ pc' = "panicked"
            /\ UNCHANGED rest
       ELSE /\ pc' = "spawn"
            /\ rest' = wordlist
    /\ UNCHANGED <<domain, wordlist, max_threads, dns, chunk_size, chunk, wpc, widx,
                   joined, found_domains, mutex_owner, poisoned, progress, results>>

\* what Chunks::next leaves in the iterator (mutant: the next chunk starts
\* one element late)
RestAfterSkip(v, n) == SubSeq(v, Min(n + 2, Len(v) + 1), Len(v))

RestAfter(v, n) == SubSeq(v, n + 1, Len(v))

\* lines 200-217: one turn of the for loop: take the next chunk, spawn its thread
Spawn ==
    /\ pc = "spawn"
    /\ rest # <<>>
    /\ LET n == NextChunkLen(rest, chunk_size) IN
         /\ chunk' = Append(chunk, SubSeq(rest, 1, n))
         /\ rest' = RestAfter(rest, n)
    /\ wpc' = Append(wpc, "check")
    /\ widx' = Append(widx, 1)
    /\ UNCHANGED <<domain, wordlist, max_threads, dns, pc, chunk_size, joined,
                   found_domains, mutex_owner, poisoned, progress, results>>

\* line 200: the iterator is exhausted, the for loop ends
SpawnDone ==
    /\ pc = "spawn"
    /\ rest = <<>>
    /\ pc' = "join"
    /\ UNCHANGED <<domain, wordlist, max_threads, dns, chunk_size, rest, chunk, wpc,
                   widx, joined, found_domains, mutex_owner, poisoned, progress, results>>

\* handle.join() returns once the thread has ended (mutant: it does not wait)
JoinReturnsEarly(w) == TRUE

JoinReturns(w) == wpc[w] \in {"finished", "panicked"}

\* handle.join().unwrap() panics on the Err of a thread that panicked
\* (mutant: the Result is dropped)
JoinUnwrapIgnored(w) == FALSE

JoinUnwrapPanics(w) == wpc[w] = "panicked"

\* lines 220-222: join the next handle, in spawn order
Join ==
    /\ pc = "join"
    /\ joined < Len(chunk)
    /\ JoinReturns(joined + 1)
    /\ IF JoinUnwrapPanics(joined + 1)
       THEN /\ pc' = "panicked"
            /\ UNCHANGED joined
       ELSE /\ joined' = joined + 1
            /\ UNCHANGED pc
    /\ UNCHANGED <<domain, wordlist, max_threads, dns, chunk_size, rest, chunk, wpc,
                   widx, found_domains, mutex_owner, poisoned, progress, results>>

\* line 224: progress_bar.finish_with_message moves the bar to its length,
\* which line 187 set to wordlist.len()
Finish ==
    /\ pc = "join"
    /\ joined = Len(chunk)
    /\ progress' = N
    /\ pc' = "collect"
    /\ UNCHANGED <<domain, wordlist, max_threads, dns, chunk_size, rest, chunk, wpc,
                   widx, joined, found_domains, mutex_owner, poisoned, results>>

\* lines 227-229: lock().unwrap(), iter().cloned().collect(), sort(), return
Collect ==
    /\ pc = "collect"
    /\ mutex_owner = NoOwner
    /\ IF poisoned
       THEN /\ pc' = "panicked"
            /\ UNCHANGED results
       ELSE /\ \E p \in IterOrders(found_domains) :
                 results' = Sort(Collected(found_domains, p))
            /\ pc' = "done"
    /\ UNCHANGED <<domain, wordlist, max_threads, dns, chunk_size, rest, chunk, wpc,
                   widx, joined, found_domains, mutex_owner, poisoned, progress>>

\* ------------------------------------------------------ the worker threads
\* a panic of the main thread ends the process, and every thread with it
Alive(w) == w \in Workers /\ pc # "panicked"

\* the candidate thread w has in hand
Subdomain(w) == chunk[w][widx[w]]

\* lines 175-183: Some(hostname) when the hostname resolves, None otherwise;
\* an Option is a sequence of length at most 1
\* (mutant: the two arms swapped)
check_subdomain_swapped(subdomain, dom) ==
    IF Hostname(subdomain, dom) \in dns THEN <<>> ELSE <<Hostname(subdomain, dom)>>

check_subdomain(subdomain, dom) ==
    IF Hostname(subdomain, dom) \in dns THEN <<Hostname(subdomain, dom)>> ELSE <<>>

\* line 208: if let Some(discovered_domain) = check_subdomain(&subdomain, &domain)
Check(w) ==
    /\ Alive(w)
    /\ wpc[w] = "check"
    /\ wpc' = [wpc EXCEPT ![w] =
                 IF check_subdomain(Subdomain(w), domain) # <<>> THEN "lock" ELSE "inc"]
    /\ UNCHANGED <<domain, wordlist, max_threads, dns, pc, chunk_size, rest, chunk,
                   widx, joined, found_domains, mutex_owner, poisoned, progress, results>>

\* Mutex::lock returns only while no other guard is alive
\* (mutant: no exclusion, as with a lock per thread)
LockAcquirableAlways(w) == TRUE

LockAcquirable(w) == mutex_owner = NoOwner

\* line 209: found_domains.lock().unwrap(): blocks while the mutex is held,
\* panics when it is poisoned
Lock(w) ==
    /\ Alive(w)
    /\ wpc[w] = "lock"
    /\ LockAcquirable(w)
    /\ IF poisoned
       THEN /\ wpc' = [wpc EXCEPT ![w] = "panicked"]
            /\ UNCHANGED mutex_owner
       ELSE /\ wpc' = [wpc EXCEPT ![w] = "insert"]
            /\ mutex_owner' = w
    /\ UNCHANGED <<domain, wordlist, max_threads, dns, pc, chunk_size, rest, chunk,
                   widx, joined, found_domains, poisoned, progress, results>>

\* line 211: the guard `domains` drops at the end of the if-let block, before
\* progress_bar.inc (mutant: the guard outlives the block)
OwnerAfterInsertKept(w) == w

OwnerAfterInsert(w) == NoOwner

\* lines 210-211: domains.insert(discovered_domain); the guard drops at the
\* end of the if-let block
Insert(w) ==
    /\ Alive(w)
    /\ wpc[w] = "insert"
    /\ mutex_owner = w
    /\ found_domains' =
         HashSetInsert(found_domains, Head(check_subdomain(Subdomain(w), domain)))
    /\ mutex_owner' = OwnerAfterInsert(w)
    /\ wpc' = [wpc EXCEPT ![w] = "inc"]
    /\ UNCHANGED <<domain, wordlist, max_threads, dns, pc, chunk_size, rest, chunk,
                   widx, joined, poisoned, progress, results>>

\* progress_bar.inc(1) runs for every candidate, resolved or not
\* (mutant: the call sits inside the if-let block)
ProgressIncIfFound(w) ==
    IF check_subdomain(Subdomain(w), domain) # <<>> THEN progress + 1 ELSE progress

\* (mutant: a second inc(1) inside the if-let block)
ProgressIncDouble(w) ==
    IF check_subdomain(Subdomain(w), domain) # <<>> THEN progress + 2 ELSE progress + 1

ProgressInc(w) == progress + 1

\* line 207: the for loop takes the next candidate of the chunk
\* (mutant: the loop does not advance)
NextIndexStuck(w) == widx[w]

NextIndex(w) == widx[w] + 1

\* line 212: progress_bar.inc(1), then the for loop of line 207 moves on
Inc(w) ==
    /\ Alive(w)
    /\ wpc[w] = "inc"
    /\ progress' = ProgressInc(w)
    /\ IF widx[w] < Len(chunk[w])
       THEN /\ widx' = [widx EXCEPT ![w] = NextIndex(w)]
            /\ wpc' = [wpc EXCEPT ![w] = "check"]
       ELSE /\ wpc' = [wpc EXCEPT ![w] = "finished"]
            /\ UNCHANGED widx
    /\ UNCHANGED <<domain, wordlist, max_threads, dns, pc, chunk_size, rest, chunk,
                   joined, found_domains, mutex_owner, poisoned, results>>

\* a thread panics in its closure: it unwinds, a guard it holds is dropped
\* and poisons the mutex
Fault(w) ==
    /\ Alive(w)
    /\ wpc[w] \in {"check", "lock", "insert", "inc"}
    /\ wpc' = [wpc EXCEPT ![w] = "panicked"]
    /\ IF mutex_owner = w
       THEN /\ mutex_owner' = NoOwner
            /\ poisoned' = TRUE
       ELSE UNCHANGED <<mutex_owner, poisoned>>
    /\ UNCHANGED <<domain, wordlist, max_threads, dns, pc, chunk_size, rest, chunk,
                   widx, joined, found_domains, progress, results>>

Next ==
    \/ ComputeChunkSize
    \/ MakeChunks
    \/ Spawn
    \/ SpawnDone
    \/ Join
    \/ Finish
    \/ Collect
    \/ \E w \in Workers : Check(w)
    \/ \E w \in Workers : Lock(w)
    \/ \E w \in Workers : Insert(w)
    \/ \E w \in Workers : Inc(w)
    \/ \E w \in Workers : Fault(w)

Spec == Init /\ [][Next]_vars

\* the scan with no thread panicking in its closure, every thread and the
\* main thread scheduled fairly, every resolution returning
MainStep ==
    \/ ComputeChunkSize
    \/ MakeChunks
    \/ Spawn
    \/ SpawnDone
    \/ Join
    \/ Finish
    \/ Collect

WorkerStep(w) ==
    \/ Check(w)
    \/ Lock(w)
    \/ Insert(w)
    \/ Inc(w)

NextNoFault ==
    \/ MainStep
    \/ \E w \in Workers : WorkerStep(w)

LiveSpec ==
    /\ Init
    /\ [][NextNoFault]_vars
    /\ WF_vars(MainStep)
    /\ \A w \in 1 .. MaxLen : WF_vars(WorkerStep(w))


\* ------------------------------------------------------------- the claims
RECURSIVE Flatten(_)
Flatten(chunks) ==
    IF chunks = <<>> THEN <<>> ELSE Head(chunks) \o Flatten(Tail(chunks))

CeilDiv(n, w) == IF n % w = 0 THEN n \div w ELSE n \div w + 1

\* the candidates the oracle resolves, and their hostnames
ResolvableCandidates == {c \in Range(wordlist) : c \o <<46>> \o domain \in dns}
ExpectedHostnames == {c \o <<46>> \o domain : c \in ResolvableCandidates}

Partitioned == pc \in {"join", "collect", "done"}
Active(w) == wpc[w] \in {"check", "lock", "insert", "inc"}
AllCompleted == Partitioned /\ \A w \in Workers : wpc[w] = "finished"

\* C1: for N >= 1 and W >= 1, whatever the interleaving, the sequence a scan
\* returns holds exactly the hostnames of the candidates the oracle resolves,
\* each once: nothing missing, nothing extra, whatever W is.
C1_ScanReturnsResolved ==
    (pc = "done" /\ N >= 1 /\ max_threads >= 1) =>
        /\ Range(results) = ExpectedHostnames
        /\ Len(results) = Cardinality(ExpectedHostnames)

\* a scan of several threads returned some hostnames and left others out
C1_Witness ==
    /\ pc = "done"
    /\ Len(chunk) >= 2
    /\ results # <<>>
    /\ ResolvableCandidates # Range(wordlist)

\* C2: with an empty wordlist and W >= 1 the scan starts no thread and
\* returns an empty sequence, without abnormal termination.
C2_EmptyWordlistReturnsEmpty ==
    (N = 0 /\ max_threads >= 1) =>
        /\ pc # "panicked"
        /\ chunk = <<>>
        /\ results = <<>>

\* C3: with max_threads = 0 the scan of a non-empty wordlist runs as with one
\* thread: it does not terminate abnormally, and it uses one chunk.
C3_ZeroThreadsClamped ==
    (max_threads = 0 /\ N >= 1) =>
        /\ pc # "panicked"
        /\ Partitioned => Len(chunk) = 1

\* C4: for N >= 1 and W >= 1, once every thread has completed, the progress
\* counter equals N.
C4_ProgressTotal ==
    (AllCompleted /\ N >= 1 /\ max_threads >= 1) => progress = N

\* every thread of a scan of several threads has completed, the bar is not
\* finished yet, and some candidate resolved and some did not
C4_Witness ==
    /\ pc = "join"
    /\ Len(chunk) >= 2
    /\ \A w \in Workers : wpc[w] = "finished"
    /\ found_domains # <<>>
    /\ ResolvableCandidates # Range(wordlist)

\* C5: the main thread reads the set and returns only after every thread it
\* started has completed: no thread is active, or holds the mutex, while the
\* result is read out or returned.
C5_ReadAfterJoin ==
    pc \in {"collect", "done"} =>
        /\ \A w \in Workers : ~Active(w)
        /\ mutex_owner = NoOwner
        /\ joined = Len(chunk)

\* the main thread is about to read the set filled by three threads
C5_Witness ==
    /\ pc = "collect"
    /\ Len(chunk) = 3
    /\ Len(found_domains) = 2

\* C6: for N >= 1 and W >= 1 the chunks, concatenated in spawn order, are the
\* wordlist: no position is omitted, duplicated or reordered.
C6_PartitionComplete ==
    /\ pc = "spawn" => Flatten(chunk) \o rest = wordlist
    /\ Partitioned => Flatten(chunk) = wordlist

\* a wordlist whose first and last candidates are the same label, around a
\* different one, was cut into chunks of different lengths
C6_Witness ==
    /\ Partitioned
    /\ N = 3
    /\ wordlist[1] = wordlist[3]
    /\ wordlist[1] # wordlist[2]
    /\ Len(chunk) = 2
    /\ Len(chunk[1]) # Len(chunk[2])

\* C7: for N >= 1 and W >= 1 every chunk has between 1 and ceil(N / W)
\* candidates, every chunk but the last exactly ceil(N / W), there are at
\* most min(N, W) chunks, and with W >= N every chunk has one candidate.
C7_PartitionBounded ==
    (Partitioned /\ N >= 1 /\ max_threads >= 1) =>
        /\ \A w \in Workers :
             /\ Len(chunk[w]) >= 1
             /\ Len(chunk[w]) <= CeilDiv(N, max_threads)
             /\ w < Len(chunk) => Len(chunk[w]) = CeilDiv(N, max_threads)
             /\ max_threads >= N => Len(chunk[w]) = 1
        /\ Len(chunk) <= Min(N, max_threads)

\* three candidates for two threads: a full chunk and a shorter last one
C7_Witness ==
    /\ Partitioned
    /\ N = 3
    /\ max_threads = 2
    /\ Len(chunk) = 2
    /\ Len(chunk[2]) = 1

\* C8 as stated: for N >= W >= 1 the number of chunks, and of threads, is W.
C8_ExactlyWChunks ==
    (Partitioned /\ max_threads >= 1 /\ N >= max_threads) =>
        Len(chunk) = max_threads

\* C8 amended: for N >= W >= 1 the number of chunks is
\* ceil(N / ceil(N / W)): at most W, and W when W divides N.
C8_ChunkCount ==
    (Partitioned /\ max_threads >= 1 /\ N >= max_threads) =>
        /\ Len(chunk) = CeilDiv(N, CeilDiv(N, max_threads))
        /\ Len(chunk) <= max_threads
        /\ N % max_threads = 0 => Len(chunk) = max_threads

\* four candidates for three threads make two chunks
C8_Witness ==
    /\ Partitioned
    /\ N = 4
    /\ max_threads = 3
    /\ Len(chunk) = 2

\* C9: when a thread has terminated abnormally the scan does not return a
\* hostname sequence: the main thread gets past the joins only with every
\* thread completed normally.
C9_WorkerPanicIsFatal ==
    (\E w \in Workers : wpc[w] = "panicked") =>
        /\ pc \notin {"collect", "done"}
        /\ ~(pc = "join" /\ joined = Len(chunk))
        /\ results = <<>>

\* the first thread was joined, the second had panicked after the first
\* inserted a hostname, and the scan ended in a panic
C9_Witness ==
    /\ pc = "panicked"
    /\ joined >= 1
    /\ \E w \in Workers : wpc[w] = "panicked"
    /\ found_domains # <<>>

\* C10: every step leaves in the set what it held, the set never holds a
\* hostname twice, and every member is the hostname of a candidate whose
\* resolution succeeded.
C10_ResultSetGrows ==
    /\ [][Range(found_domains) \subseteq Range(found_domains')
          /\ Len(found_domains') >= Len(found_domains)]_vars
    /\ [](/\ Cardinality(Range(found_domains)) = Len(found_domains)
          /\ Range(found_domains) \subseteq ExpectedHostnames)

\* two threads each resolved the same label, and the set holds it once
C10_Witness ==
    /\ \E v, w \in Workers :
         /\ v # w
         /\ wpc[v] = "finished"
         /\ wpc[w] = "finished"
         /\ chunk[v][1] = chunk[w][1]
         /\ chunk[v][1] \in ResolvableCandidates
    /\ Len(found_domains) = 1


\* lexicographic order of byte strings, stated without recursion: a and b
\* agree before position k, where a ends or holds the smaller byte
LexLess(a, b) ==
    \E k \in 1 .. Len(b) :
        /\ k <= Len(a) + 1
        /\ \A i \in 1 .. k - 1 : a[i] = b[i]
        /\ k = Len(a) + 1 \/ a[k] < b[k]

StrictlyAscending(v) == \A i \in 1 .. Len(v) - 1 : LexLess(v[i], v[i + 1])

\* C11: the returned sequence is strictly ascending in lexicographic order,
\* so no hostname is in it twice, also when the wordlist repeats a label and
\* the repetitions are in different threads' chunks.
C11_ResultStrictlyAscending ==
    pc = "done" => StrictlyAscending(results)

\* [w, w, ww] with only w resolving, one candidate per thread, returned the
\* single hostname w.e
C11_Witness ==
    /\ pc = "done"
    /\ wordlist = <<<<119>>, <<119>>, <<119, 119>>>>
    /\ dns = {<<119, 46, 101>>}
    /\ Len(chunk) = 3
    /\ results = <<<<119, 46, 101>>>>

\* the one strictly ascending sequence of the expected hostnames: it depends
\* on the domain, the set of candidates and the oracle, nothing else
CanonicalResult ==
    CHOOSE v \in [1 .. Cardinality(ExpectedHostnames) -> ExpectedHostnames] :
        Range(v) = ExpectedHostnames /\ StrictlyAscending(v)

\* C12: two scans with the same domain, the same set of candidates and the
\* same oracle return the same sequence, whatever their thread counts and
\* interleavings: every scan that returns, returns the sequence fixed by the
\* domain, the candidate set and the oracle alone.
C12_ResultDeterministic ==
    (pc = "done" /\ max_threads >= 1) => results = CanonicalResult

\* a scan of several threads whose set was filled in descending order
C12_Witness ==
    /\ pc = "done"
    /\ Len(chunk) >= 2
    /\ Len(found_domains) = 2
    /\ LexLess(found_domains[2], found_domains[1])


\* C13: for N >= 1 and W >= 1, with every resolution returning and every
\* thread scheduled fairly, the scan reaches Done, and no state before Done
\* is one where nothing can move.
C13_ScanTerminates ==
    /\ [](  (N >= 1 /\ max_threads >= 1) => (pc = "done" \/ ENABLED NextNoFault))
    /\ (N >= 1 /\ max_threads >= 1) ~> (pc = "done")

\* what holds of the code: the same, for the thread counts whose sum with
\* the wordlist length fits usize
C13_TerminatesWithoutOverflow ==
    /\ [](  (N >= 1 /\ max_threads >= 1 /\ N + max_threads <= UsizeMax)
             => (pc = "done" \/ ENABLED NextNoFault))
    /\ (N >= 1 /\ max_threads >= 1 /\ N + max_threads <= UsizeMax) ~> (pc = "done")


\* C19: for N >= 1 and W >= 1 the sum N + W - 1 neither overflows nor wraps
\* in usize, so that line 198 does not panic and yields a chunk size of
\* ceil(N / W), at least 1 (and chunks() accepts it).
C19_ChunkSizeNoOverflow ==
    (N >= 1 /\ max_threads >= 1) =>
        /\ pc = "panicked" => chunk # <<>>
        /\ pc \notin {"chunk_size", "panicked"} =>
             /\ chunk_size = CeilDiv(N, max_threads)
             /\ chunk_size >= 1

\* the computation as the claim has it, on the inputs that leave usize: a
\* scan that got past line 198 and line 200 has the chunk size ceil(N / W)
C19_ChunkSizeWhenPartitioning ==
    (pc \in {"spawn", "join", "collect", "done"} /\ N >= 1 /\ max_threads >= 1) =>
        /\ chunk_size = CeilDiv(N, max_threads)
        /\ chunk_size >= 1


\* the candidates of thread w whose processing has completed (resolved,
\* inserted when found, counted)
Completed(w) == IF wpc[w] = "finished" THEN Len(chunk[w]) ELSE widx[w] - 1

RECURSIVE CompletedUpTo(_)
CompletedUpTo(k) == IF k = 0 THEN 0 ELSE CompletedUpTo(k - 1) + Completed(k)

\* C14: the progress counter starts at 0, changes only by +1, each such step
\* taken by a thread that has just processed a candidate (found or not), and
\* it is always at most N and equal to the number of candidates whose
\* processing has completed.
C14_ProgressCounts ==
    /\ progress = 0
    /\ [][progress' # progress =>
            /\ progress' = progress + 1
            /\ \E w \in Workers :
                 /\ wpc[w] = "inc"
                 /\ wpc'[w] \in {"check", "finished"}
                 /\ \A v \in Workers \ {w} : wpc'[v] = wpc[v]]_vars
    /\ [](/\ progress <= N
          /\ progress = CompletedUpTo(Len(chunk)))

\* mid-scan: one thread is done, another resolves its second candidate after
\* a first that did not resolve and was counted all the same
C14_Witness ==
    /\ pc = "join"
    /\ progress >= 2
    /\ progress < N
    /\ \E u, v \in Workers :
         /\ wpc[u] = "finished"
         /\ wpc[v] = "check"
         /\ widx[v] = 2
         /\ chunk[v][1] \notin ResolvableCandidates


\* the threads inside the critical section of lines 209-211
InCriticalSection == {w \in Workers : wpc[w] = "insert"}

\* C15: insertions are mutually exclusive: at most one thread is between
\* lock() and the drop of its guard, that thread is the owner of the mutex,
\* the set changes only in a step of the owner, and the main thread's final
\* read takes the mutex too (it waits for it to be free).
C15_MutualExclusion ==
    /\ [](/\ Cardinality(InCriticalSection) <= 1
          /\ \A w \in InCriticalSection : mutex_owner = w)
    /\ [][found_domains' # found_domains =>
            /\ mutex_owner \in Workers
            /\ wpc[mutex_owner] = "insert"
            /\ wpc'[mutex_owner] = "inc"]_vars
    /\ [][results' # results => (pc = "collect" /\ mutex_owner = NoOwner)]_vars

\* one thread holds the guard while another waits in lock()
C15_Witness ==
    \E v, w \in Workers :
        /\ v # w
        /\ wpc[v] = "insert"
        /\ mutex_owner = v
        /\ wpc[w] = "lock"

\* the wordlist positions before the chunk of thread w
RECURSIVE Offset(_)
Offset(w) == IF w = 1 THEN 0 ELSE Offset(w - 1) + Len(chunk[w - 1])

\* C16: every position of the wordlist belongs to the chunk of one thread,
\* which resolves its positions one at a time in increasing order, each once:
\* a thread starts a resolution only at its first position or right after it
\* has finished the position before, and it completes only past its last one.
C16_EachPositionOnce ==
    /\ [](\A w \in Workers :
            /\ chunk[w] = SubSeq(wordlist, Offset(w) + 1, Offset(w) + Len(chunk[w]))
            /\ widx[w] \in 1 .. Len(chunk[w])
            /\ wpc[w] = "finished" => widx[w] = Len(chunk[w]))
    /\ [][\A w \in Workers :
            /\ widx'[w] # widx[w] =>
                 (widx'[w] = widx[w] + 1 /\ wpc[w] = "inc" /\ wpc'[w] = "check")
            /\ (wpc'[w] = "check" /\ wpc[w] # "check") =>
                 (wpc[w] = "inc" /\ widx'[w] = widx[w] + 1)
            /\ (wpc[w] = "check" /\ wpc'[w] # "check") =>
                 (wpc'[w] \in {"lock", "inc", "panicked"} /\ widx'[w] = widx[w])
            /\ chunk'[w] = chunk[w]]_vars
    /\ [][\A w \in (1 .. Len(chunk')) \ Workers :
            wpc'[w] = "check" /\ widx'[w] = 1]_vars

\* the second of two threads resolves the last position of the wordlist, its
\* second, while the first has completed
C16_Witness ==
    /\ Len(chunk) = 2
    /\ N = 4
    /\ wpc[1] = "finished"
    /\ wpc[2] = "check"
    /\ widx[2] = 2
    /\ Offset(2) + widx[2] = N


\* C17: a thread holds the mutex only for the insert: never while it
\* resolves a candidate, waits in lock() or increments the progress counter,
\* so a thread in a slow resolution never keeps another from inserting.
C17_LockOnlyForInsert ==
    \A w \in Workers :
        /\ mutex_owner = w => wpc[w] = "insert"
        /\ wpc[w] \in {"check", "lock", "inc", "finished"} => mutex_owner # w

\* a thread is in the resolution of its second candidate, after inserting
\* its first, while another thread holds the guard
C17_Witness ==
    \E v, w \in Workers :
        /\ v # w
        /\ wpc[v] = "check"
        /\ widx[v] = 2
        /\ chunk[v][1] \in ResolvableCandidates
        /\ mutex_owner = w

\* the candidates of thread w that the progress counter has counted
Counted(w) == {i \in 1 .. Len(chunk[w]) : i < widx[w] \/ wpc[w] = "finished"}

\* C18: a thread inserts a resolved hostname before it counts the candidate:
\* the hostname of every resolvable candidate already counted is in the set,
\* and when the counter is at N the set is complete.
C18_InsertBeforeInc ==
    /\ \A w \in Workers : \A i \in Counted(w) :
         chunk[w][i] \in ResolvableCandidates =>
             chunk[w][i] \o <<46>> \o domain \in Range(found_domains)
    /\ progress = N => Range(found_domains) = ExpectedHostnames

\* the counter is at N with both labels found, before the main thread has
\* joined anything
C18_Witness ==
    /\ pc = "join"
    /\ joined = 0
    /\ progress = N
    /\ Len(chunk) >= 2
    /\ Len(found_domains) = 2

====
